---- MODULE Spec2Model ----
(***************************************************************************)
(* Model of src/ms2rescore/gui.py: the settings parser parse_settings, the *)
(* form values _parse_arguments hands to it, and the control flow of main. *)
(*                                                                         *)
(* Text is a sequence of one-character strings.  A Python value is a       *)
(* record [kind, atom, items]: kind is the Python type, atom the           *)
(* characters of a str / int / float, items the elements of a container.   *)
(* A Python dict whose keys are str (the form's namespace, the sections    *)
(* of the parsed configuration, a label -> name mapping) is a TLA+         *)
(* function on its set of keys.                                            *)
(***************************************************************************)
EXTENDS Integers, Sequences, FiniteSets

VARIABLES
    pc,        \* position of main: "start", "parsed_args", "parsed", "constructed", "done", "raised"; "caller" outside main
    config,    \* the dict object handed to parse_settings (main's _parse_arguments().__dict__)
    arg,       \* history: the contents of the mapping when parse_settings was last called
    raw,       \* history: the contents of the mapping when it was created
    outcome,   \* what the last call of parse_settings did: returned a value or raised
    calls,     \* number of calls of parse_settings made on the mapping
    rescore    \* the MS2ReScore object: whether constructed, with what, whether run

vars == <<pc, config, arg, raw, outcome, calls, rescore>>

----------------------------------------------------------------------------
(* Bounds of the model *)

\* longest text of a MaxQuant modification field
MaxTextLen == 6

\* longest text of the MS2PIP modifications field
MaxLitLen == 4

\* how often a caller passes the same mapping to parse_settings
MaxCalls == 2

\* characters of a MaxQuant modification text: two letters, the space, the newline
ModChars == {"a", "b", " ", "\n"}

\* characters of an MS2PIP modifications text
LitChars == {"[", "]", "{", "}", ",", ":", "1"}

Texts(chars, n) == UNION {[1..k -> chars] : k \in 0..n}

----------------------------------------------------------------------------
(* Python values *)

PyStr(s)   == [kind |-> "str",   atom |-> s, items |-> <<>>]
PyInt(s)   == [kind |-> "int",   atom |-> s, items |-> <<>>]
PyFloat(s) == [kind |-> "float", atom |-> s, items |-> <<>>]
PyNone     == [kind |-> "NoneType", atom |-> <<>>, items |-> <<>>]
PyList(xs)  == [kind |-> "list",  atom |-> <<>>, items |-> xs]
PyTuple(xs) == [kind |-> "tuple", atom |-> <<>>, items |-> xs]
PySet(xs)   == [kind |-> "set",   atom |-> <<>>, items |-> xs]
PyDict(ps)  == [kind |-> "dict",  atom |-> <<>>, items |-> ps]
PyPair(k, v) == [kind |-> "pair", atom |-> <<>>, items |-> <<k, v>>]

\* bool(v), as `if parsed_conf_item:` evaluates it
Truthy(v) ==
    CASE v.kind = "NoneType" -> FALSE
      [] v.kind = "str" -> Len(v.atom) > 0
      [] v.kind \in {"int", "float"} -> \E i \in DOMAIN v.atom : v.atom[i] \notin {"0", "."}
      [] OTHER -> Len(v.items) > 0

\* hash(v) succeeds: containers other than tuple are unhashable
RECURSIVE Hashable(_)
Hashable(v) ==
    CASE v.kind \in {"list", "set", "dict"} -> FALSE
      [] v.kind = "tuple" -> \A i \in DOMAIN v.items : Hashable(v.items[i])
      [] OTHER -> TRUE

\* body(v) with v evaluated once, as a local variable holds a value
Bind(v, body(_)) == CHOOSE r \in {body(x) : x \in {v}} : TRUE

\* the outcome of evaluating an expression: a value, or an exception of a type
Ok(v)     == [ok |-> TRUE,  val |-> v,    exc |-> ""]
Raise(e)  == [ok |-> FALSE, val |-> <<>>, exc |-> e]

----------------------------------------------------------------------------
(* str.split(sep) and dict(iterable of tuples) *)

\* s.split(sep) for a one-character sep: the pieces between every occurrence
\* of sep; "".split(sep) is [""]
RECURSIVE Split(_, _)
Split(s, sep) ==
    IF \A i \in DOMAIN s : s[i] # sep
    THEN <<s>>
    ELSE LET k == CHOOSE i \in DOMAIN s : s[i] = sep /\ \A j \in 1..(i - 1) : s[j] # sep
         IN  <<SubSeq(s, 1, k - 1)>> \o Split(SubSeq(s, k + 1, Len(s)), sep)

\* DictSet that keeps the value a key already has
DictSetFirst(d, k, v) == [x \in DOMAIN d \cup {k} |-> IF x \in DOMAIN d THEN d[x] ELSE v]

\* d[k] = v on a dict
DictSet(d, k, v) == [x \in DOMAIN d \cup {k} |-> IF x = k THEN v ELSE d[x]]

\* dict.update from a sequence of 2-tuples, in order
RECURSIVE DictFill(_, _)
DictFill(d, tuples) ==
    IF tuples = <<>> THEN d
    ELSE DictFill(DictSet(d, Head(tuples)[1], Head(tuples)[2]), Tail(tuples))

\* DictOfTuples that skips the elements whose length is not 2
DictOfTuplesLenient(tuples) ==
    Ok(DictFill(<<>>, SelectSeq(tuples, LAMBDA t : Len(t) = 2)))

\* dict(tuples): ValueError unless every element has length 2
DictOfTuples(tuples) ==
    IF \E i \in DOMAIN tuples : Len(tuples[i]) # 2
    THEN Raise("ValueError")
    ELSE Ok(DictFill(<<>>, tuples))

----------------------------------------------------------------------------
(* ast.literal_eval: compile the text to an expression tree (SyntaxError), *)
(* then convert the tree to a value (ValueError, TypeError).  The grammar  *)
(* is Python's expression grammar over LitChars: integers, list, set and   *)
(* dict displays, tuples without parentheses, subscripts and slices.       *)

NoNode == [kind |-> "none", atom |-> <<>>, items |-> <<>>]
SubscriptNode == [kind |-> "Subscript", atom |-> <<>>, items |-> <<>>]
ParseFail == [ok |-> FALSE, pos |-> 0, node |-> NoNode, items |-> <<>>, commas |-> 0]
Parsed(p, n) == [ok |-> TRUE, pos |-> p, node |-> n, items |-> <<>>, commas |-> 0]
ParsedItems(p, xs, c) == [ok |-> TRUE, pos |-> p, node |-> NoNode, items |-> xs, commas |-> c]

\* the character at position i, "EOF" past the end
At(s, i) == IF i \in DOMAIN s THEN s[i] ELSE "EOF"

\* a NUMBER token is the longest run of digits
RECURSIVE DigitsEnd(_, _)
DigitsEnd(s, i) == IF At(s, i) = "1" THEN DigitsEnd(s, i + 1) ELSE i

RECURSIVE ParseExpression(_, _), ParseTrailers(_, _, _), ParseExprList(_, _), ParseKvList(_, _), ParseSliceList(_, _)

\* atom: NUMBER | '[' [exprs] ']' | '{' [kvpairs] '}' | '{' exprs '}'
ParseAtom(s, i) ==
    CASE At(s, i) = "1" ->
            Bind(DigitsEnd(s, i), LAMBDA j : Parsed(j, PyInt(SubSeq(s, i, j - 1))))
      [] At(s, i) = "[" ->
            IF At(s, i + 1) = "]" THEN Parsed(i + 2, PyList(<<>>))
            ELSE Bind(ParseExprList(s, i + 1), LAMBDA xs :
                    IF xs.ok /\ At(s, xs.pos) = "]"
                    THEN Parsed(xs.pos + 1, PyList(xs.items))
                    ELSE ParseFail)
      [] At(s, i) = "{" ->
            IF At(s, i + 1) = "}" THEN Parsed(i + 2, PyDict(<<>>))
            ELSE Bind(ParseKvList(s, i + 1), LAMBDA kv :
                    IF kv.ok /\ At(s, kv.pos) = "}"
                    THEN Parsed(kv.pos + 1, PyDict(kv.items))
                    ELSE Bind(ParseExprList(s, i + 1), LAMBDA xs :
                            IF xs.ok /\ At(s, xs.pos) = "}"
                            THEN Parsed(xs.pos + 1, PySet(xs.items))
                            ELSE ParseFail))
      [] OTHER -> ParseFail

\* an optional expression at i: where the text goes on after it
SkipExpression(s, i) == Bind(ParseExpression(s, i), LAMBDA e : IF e.ok THEN e.pos ELSE i)

\* slice: [expression] ':' [expression] [':' [expression]] | expression
ParseSlice(s, i) ==
    Bind(ParseExpression(s, i), LAMBDA e1 :
        IF At(s, IF e1.ok THEN e1.pos ELSE i) = ":"
        THEN Bind(SkipExpression(s, (IF e1.ok THEN e1.pos ELSE i) + 1), LAMBDA p2 :
                IF At(s, p2) = ":"
                THEN Parsed(SkipExpression(s, p2 + 1), NoNode)
                ELSE Parsed(p2, NoNode))
        ELSE IF e1.ok THEN Parsed(e1.pos, NoNode) ELSE ParseFail)

\* slices: ','.slice+ [',']
ParseSliceList(s, i) ==
    Bind(ParseSlice(s, i), LAMBDA e :
        IF ~e.ok THEN ParseFail
        ELSE IF At(s, e.pos) = ","
        THEN Bind(ParseSliceList(s, e.pos + 1), LAMBDA rest :
                IF rest.ok THEN rest ELSE Parsed(e.pos + 1, NoNode))
        ELSE e)

\* primary: an atom followed by any number of '[' slices ']'
ParseTrailers(s, i, node) ==
    IF At(s, i) = "["
    THEN Bind(ParseSliceList(s, i + 1), LAMBDA sl :
            IF sl.ok /\ At(s, sl.pos) = "]"
            THEN ParseTrailers(s, sl.pos + 1, SubscriptNode)
            ELSE ParseFail)
    ELSE Parsed(i, node)

ParseExpression(s, i) ==
    Bind(ParseAtom(s, i), LAMBDA a :
        IF a.ok THEN ParseTrailers(s, a.pos, a.node) ELSE ParseFail)

\* ','.expression+ [',']
ParseExprList(s, i) ==
    Bind(ParseExpression(s, i), LAMBDA e :
        IF ~e.ok THEN ParseFail
        ELSE IF At(s, e.pos) = ","
        THEN Bind(ParseExprList(s, e.pos + 1), LAMBDA rest :
                IF rest.ok
                THEN ParsedItems(rest.pos, <<e.node>> \o rest.items, rest.commas + 1)
                ELSE ParsedItems(e.pos + 1, <<e.node>>, 1))
        ELSE ParsedItems(e.pos, <<e.node>>, 0))

\* kvpair: expression ':' expression
ParseKvPair(s, i) ==
    Bind(ParseExpression(s, i), LAMBDA k :
        IF k.ok /\ At(s, k.pos) = ":"
        THEN Bind(ParseExpression(s, k.pos + 1), LAMBDA v :
                IF v.ok THEN Parsed(v.pos, PyPair(k.node, v.node)) ELSE ParseFail)
        ELSE ParseFail)

\* ','.kvpair+ [',']
ParseKvList(s, i) ==
    Bind(ParseKvPair(s, i), LAMBDA kv :
        IF ~kv.ok THEN ParseFail
        ELSE IF At(s, kv.pos) = ","
        THEN Bind(ParseKvList(s, kv.pos + 1), LAMBDA rest :
                IF rest.ok
                THEN ParsedItems(rest.pos, <<kv.node>> \o rest.items, 0)
                ELSE ParsedItems(kv.pos + 1, <<kv.node>>, 0))
        ELSE ParsedItems(kv.pos, <<kv.node>>, 0))

\* compile(text, mode "eval"): expressions then the end of the text; a comma
\* at the top level makes a tuple
Compile(s) ==
    Bind(ParseExprList(s, 1), LAMBDA xs :
        IF xs.ok /\ xs.pos = Len(s) + 1
        THEN Ok(IF xs.commas > 0 THEN PyTuple(xs.items) ELSE xs.items[1])
        ELSE Raise("SyntaxError"))

\* set.add(v) on a set kept as a sequence without repetition
SetAdd(xs, v) == IF \E i \in DOMAIN xs : xs[i] = v THEN xs ELSE Append(xs, v)

\* d[k] = v on a dict kept as a sequence of pairs: replace or append
PairSet(ps, k, v) ==
    IF \E i \in DOMAIN ps : ps[i].items[1] = k
    THEN [i \in DOMAIN ps |-> IF ps[i].items[1] = k THEN PyPair(k, v) ELSE ps[i]]
    ELSE Append(ps, PyPair(k, v))

\* set(converted elements): each element is added unless already there
RECURSIVE SetOf(_, _)
SetOf(vals, done) ==
    IF vals = <<>> THEN done ELSE SetOf(Tail(vals), SetAdd(done, Head(vals)))

\* dict(zip(keys, values)) on converted keys and values
RECURSIVE DictOf(_, _)
DictOf(pairs, done) ==
    IF pairs = <<>> THEN done
    ELSE DictOf(Tail(pairs), PairSet(done, Head(pairs).items[1], Head(pairs).items[2]))

\* the first index to raise, and what it raises, when the steps of a
\* left-to-right evaluation raise errs[i] ("" for a step that succeeds)
FirstRaise(errs) ==
    LET bad == {i \in DOMAIN errs : errs[i] # ""}
    IN  IF bad = {} THEN "" ELSE errs[CHOOSE i \in bad : \A j \in bad : i <= j]

\* _convert(node): a constant, or a tuple, list, set or dict display whose
\* elements are converted left to right; any other node is malformed.
\*   set(map(_convert, elts)) converts an element, then hashes it;
\*   dict(zip(map(_convert, keys), map(_convert, values))) converts a key,
\*   converts its value, then hashes the key.
\* what element i of a display raises once converted to c: its own
\* exception, or TypeError when a set element or a dict key cannot be hashed
RaisedBy(kind, c) ==
    IF ~c.ok THEN c.exc
    ELSE IF kind = "set" /\ ~Hashable(c.val) THEN "TypeError"
    ELSE IF kind = "dict" /\ ~Hashable(c.val.items[1]) THEN "TypeError"
    ELSE ""

\* the value of a display of the kind from its converted elements
Display(kind, vals) ==
    CASE kind = "set" -> PySet(SetOf(vals, <<>>))
      [] kind = "dict" -> PyDict(DictOf(vals, <<>>))
      [] OTHER -> [kind |-> kind, atom |-> <<>>, items |-> vals]

RECURSIVE Convert(_)
Convert(node) ==
    IF node.kind = "int" THEN Ok(node)
    ELSE IF node.kind \in {"tuple", "list", "set", "dict", "pair"}
    THEN Bind([i \in DOMAIN node.items |-> Convert(node.items[i])], LAMBDA cs :
            Bind(FirstRaise([i \in DOMAIN cs |-> RaisedBy(node.kind, cs[i])]), LAMBDA e :
                IF e # "" THEN Raise(e)
                ELSE Ok(Display(node.kind, [i \in DOMAIN cs |-> cs[i].val]))))
    ELSE Raise("ValueError")

\* ast.literal_eval(v): a str is compiled and converted; anything else is a
\* malformed node
literal_eval(v) ==
    IF v.kind # "str" THEN Raise("ValueError")
    ELSE Bind(Compile(v.atom), LAMBDA tree : IF tree.ok THEN Convert(tree.val) ELSE tree)

----------------------------------------------------------------------------
(* parse_settings *)

\* the fields of the "MaxQuant settings" group, in the order the loop takes them
MaxQuantFields == <<"modification_mapping", "fixed_modifications">>

\* the keys parse_settings pops from the mapping it is given
RelocatedKeys ==
    {"modification_mapping", "fixed_modifications", "ms2pip_model", "ms2pip_frag_error",
     "ms2pip_modifications"}

\* exceptions: the type and the message (the superscript two of the source's
\* "MS2PIP" is written 2)
NoExc == [type |-> "", msg |-> ""]
KeyError(k) == [type |-> "KeyError", msg |-> k]
MaxQuantError ==
    [type |-> "MS2RescoreGUIError",
     msg |-> "Invalid MaxQuant modification configuration. Make sure that the modification configuration fields are formatted correctly."]
Ms2pipError ==
    [type |-> "MS2RescoreGUIError",
     msg |-> "Invalid MS2PIP modification configuration. Make sure that the modification configuration field is formatted correctly."]

\* d.pop(k) on a dict that holds k: the dict without k
Pop(d, k) == [x \in DOMAIN d \ {k} |-> d[x]]

\* parsed_conf_item.split("\n")
SplitLines(text) == Split(text, "\n")

\* x.split(" ", 1): SplitLine that splits on the first space only
SplitLineOnce(x) ==
    IF \A i \in DOMAIN x : x[i] # " "
    THEN <<x>>
    ELSE LET k == CHOOSE i \in DOMAIN x : x[i] = " " /\ \A j \in 1..(i - 1) : x[j] # " "
         IN  <<SubSeq(x, 1, k - 1), SubSeq(x, k + 1, Len(x))>>

\* x.split(" ")
SplitLine(x) == Split(x, " ")

\* ParseConfItem without the test for an empty value
ParseConfItemAlwaysSplit(item) ==
    IF item.kind # "str"
    THEN Raise("AttributeError")
    ELSE Bind(SplitLines(item.atom), LAMBDA lines :
            DictOfTuples([i \in DOMAIN lines |-> SplitLine(lines[i])]))

\* the try body of the MaxQuant loop: a truthy value is split into lines,
\* each line into its space-separated pieces, and the tuples made a dict
ParseConfItem(item) ==
    IF Truthy(item)
    THEN IF item.kind # "str"
         THEN Raise("AttributeError")
         ELSE Bind(SplitLines(item.atom), LAMBDA lines :
                DictOfTuples([i \in DOMAIN lines |-> SplitLine(lines[i])]))
    ELSE Ok(<<>>)

\* MaxQuantStep without the try: the exception of the body leaves as it is
MaxQuantStepNoTry(st, conf_item) ==
    IF st.exc # NoExc THEN st
    ELSE IF conf_item \notin DOMAIN st.general
    THEN [st EXCEPT !.exc = KeyError(conf_item)]
    ELSE Bind(ParseConfItem(st.general[conf_item]), LAMBDA r :
            IF r.ok
            THEN [st EXCEPT !.general = Pop(st.general, conf_item),
                            !.maxquant_to_rescore =
                                DictSet(st.maxquant_to_rescore, conf_item, r.val)]
            ELSE [st EXCEPT !.general = Pop(st.general, conf_item),
                            !.exc = [type |-> r.exc, msg |-> ""]])

\* one iteration of the MaxQuant loop on the state of the call: the pop is
\* outside the try, every exception of the try body becomes MaxQuantError
MaxQuantStep(st, conf_item) ==
    IF st.exc # NoExc THEN st
    ELSE IF conf_item \notin DOMAIN st.general
    THEN [st EXCEPT !.exc = KeyError(conf_item)]
    ELSE Bind(ParseConfItem(st.general[conf_item]), LAMBDA r :
            IF r.ok
            THEN [st EXCEPT !.general = Pop(st.general, conf_item),
                            !.maxquant_to_rescore =
                                DictSet(st.maxquant_to_rescore, conf_item, r.val)]
            ELSE [st EXCEPT !.general = Pop(st.general, conf_item),
                            !.exc = MaxQuantError])

\* Ms2pipPop that reads the key and leaves it in general
Ms2pipGet(st, key, field) ==
    IF st.exc # NoExc THEN st
    ELSE IF key \notin DOMAIN st.general
    THEN [st EXCEPT !.exc = KeyError(key)]
    ELSE [st EXCEPT !.ms2pip = DictSet(st.ms2pip, field, st.general[key])]

\* one entry of the dict display assigned to parsed_config["ms2pip"]
Ms2pipPop(st, key, field) ==
    IF st.exc # NoExc THEN st
    ELSE IF key \notin DOMAIN st.general
    THEN [st EXCEPT !.exc = KeyError(key)]
    ELSE [st EXCEPT !.general = Pop(st.general, key),
                    !.ms2pip = DictSet(st.ms2pip, field, st.general[key])]

\* Ms2pipModifications without the try
Ms2pipModificationsNoTry(st) ==
    IF st.exc # NoExc THEN st
    ELSE IF "ms2pip_modifications" \notin DOMAIN st.general
    THEN [st EXCEPT !.exc = KeyError("ms2pip_modifications")]
    ELSE Bind(literal_eval(st.general["ms2pip_modifications"]), LAMBDA r :
            IF r.ok
            THEN [st EXCEPT !.general = Pop(st.general, "ms2pip_modifications"),
                            !.ms2pip = DictSet(st.ms2pip, "modifications", r.val)]
            ELSE [st EXCEPT !.general = Pop(st.general, "ms2pip_modifications"),
                            !.exc = [type |-> r.exc, msg |-> ""]])

\* the last try: the pop and literal_eval are both inside it, every
\* exception becomes Ms2pipError
Ms2pipModifications(st) ==
    IF st.exc # NoExc THEN st
    ELSE IF "ms2pip_modifications" \notin DOMAIN st.general
    THEN [st EXCEPT !.exc = Ms2pipError]
    ELSE Bind(literal_eval(st.general["ms2pip_modifications"]), LAMBDA r :
            IF r.ok
            THEN [st EXCEPT !.general = Pop(st.general, "ms2pip_modifications"),
                            !.ms2pip = DictSet(st.ms2pip, "modifications", r.val)]
            ELSE [st EXCEPT !.general = Pop(st.general, "ms2pip_modifications"),
                            !.exc = Ms2pipError])

\* "general" is the caller's mapping itself, not a copy of it
InitialParsedConfig(raw_config) ==
    [general |-> raw_config, maxquant_to_rescore |-> <<>>, ms2pip |-> <<>>, exc |-> NoExc]

\* the run of parse_settings on a mapping: the state of the call when it
\* returns or raises; its general is what the caller's mapping has become
ParseRun(raw_config) ==
    Bind(InitialParsedConfig(raw_config), LAMBDA s0 :
    Bind(MaxQuantStep(s0, MaxQuantFields[1]), LAMBDA s1 :
    Bind(MaxQuantStep(s1, MaxQuantFields[2]), LAMBDA s2 :
    Bind(Ms2pipPop(s2, "ms2pip_model", "model"), LAMBDA s3 :
    Bind(Ms2pipPop(s3, "ms2pip_frag_error", "frag_error"), LAMBDA s4 :
    Ms2pipModifications(s4))))))

NoValue == [general |-> <<>>, maxquant_to_rescore |-> <<>>, ms2pip |-> <<>>]
NoOutcome == [status |-> "none", exc |-> NoExc, value |-> NoValue]

\* what the caller sees of a finished run: the returned parsed_config, or
\* the exception
Outcome(st) ==
    IF st.exc = NoExc
    THEN [status |-> "returned", exc |-> NoExc,
          value |-> [general |-> st.general,
                     maxquant_to_rescore |-> st.maxquant_to_rescore,
                     ms2pip |-> st.ms2pip]]
    ELSE [status |-> "raised", exc |-> st.exc, value |-> NoValue]

parse_settings(raw_config) == Bind(ParseRun(raw_config), LAMBDA st : Outcome(st))

----------------------------------------------------------------------------
(* The form: what _parse_arguments().__dict__ can hold.  Texts the parser  *)
(* never looks into are kept in one piece.                                 *)

ModTexts == Texts(ModChars, MaxTextLen)
LitTexts == Texts(LitChars, MaxLitLen)

\* an empty field and a one-line field such as the default "C Carbamidomethyl"
SmallModTexts == {<<>>, <<"a", " ", "b">>}

\* the literal "[]" and an unbalanced one
SmallLitTexts == {<<"[", "]">>, <<"[">>}

\* choices of the two dropdowns that are varied
Pipelines == {"infer", "maxquant"}
Ms2pipModels == {"HCD2021", "CID"}

\* the namespace argparse builds: every dest with its value
Namespace(mm, fm, lit, model, pipeline) ==
    [identification_file |-> PyStr(<<"msms.txt">>),
     mgf_path |-> PyNone,
     config_file |-> PyNone,
     tmp_path |-> PyNone,
     output_filename |-> PyNone,
     pipeline |-> PyStr(<<pipeline>>),
     log_level |-> PyStr(<<"info">>),
     fixed_modifications |-> fm,
     modification_mapping |-> mm,
     ms2pip_model |-> PyStr(<<model>>),
     ms2pip_frag_error |-> PyFloat(<<"0", ".", "0", "2">>),
     ms2pip_modifications |-> lit]

\* the form's namespace for the texts of modification_mapping,
\* fixed_modifications and ms2pip_modifications: the three are type=str
FormValue(mm, fm, lit, model, pipeline) ==
    Namespace(PyStr(mm), PyStr(fm), PyStr(lit), model, pipeline)

\* v is a namespace the form can give: one text field takes every text and
\* the others a small one, or the dropdowns take every choice
IsFormValue(v) ==
    \/ \E mm \in ModTexts, fm \in SmallModTexts, lit \in SmallLitTexts :
            v = FormValue(mm, fm, lit, "HCD2021", "infer")
    \/ \E mm \in SmallModTexts, fm \in ModTexts, lit \in SmallLitTexts :
            v = FormValue(mm, fm, lit, "HCD2021", "infer")
    \/ \E mm \in SmallModTexts, fm \in SmallModTexts, lit \in LitTexts :
            v = FormValue(mm, fm, lit, "HCD2021", "infer")
    \/ \E mm \in SmallModTexts, lit \in SmallLitTexts :
            \E model \in Ms2pipModels, pipeline \in Pipelines :
                v = FormValue(mm, mm, lit, model, pipeline)

\* values a caller other than main may put in a text field
OddValues == {PyNone, PyInt(<<"0">>), PyInt(<<"5">>), PyStr(<<>>), PyStr(<<"a", " ", "b">>)}
OddLiterals == {PyNone, PyInt(<<"5">>), PyStr(<<"[", "]">>), PyStr(<<"1">>), PyStr(<<"[">>)}

\* d without the keys in missing
Without(d, missing) == [k \in DOMAIN d \ missing |-> d[k]]

----------------------------------------------------------------------------
(* main, and a caller that hands its mapping to parse_settings repeatedly *)

NotConstructed == [constructed |-> FALSE, configuration |-> NoValue, ran |-> FALSE]

Init ==
    /\ pc = "start"
    /\ config = <<>>
    /\ raw = <<>>
    /\ arg = <<>>
    /\ outcome = NoOutcome
    /\ calls = 0
    /\ rescore = NotConstructed

\* conf = _parse_arguments().__dict__
ParseArguments ==
    /\ pc = "start"
    /\ IsFormValue(config')
    /\ raw' = config'
    /\ pc' = "parsed_args"
    /\ UNCHANGED <<arg, outcome, calls, rescore>>

\* a call parse_settings(config): the outcome, and what the call made of
\* the mapping it was handed
Call ==
    /\ \E st \in {ParseRun(config)} :
          /\ outcome' = Outcome(st)
          /\ config' = st.general
    /\ arg' = config
    /\ calls' = calls + 1

\* AfterParse of a main that goes on whatever parse_settings did
AfterParseSwallow(o) == "parsed"

\* where main is after conf = parse_settings(conf): an exception leaves main
AfterParse(o) == IF o.status = "returned" THEN "parsed" ELSE "raised"

\* conf = parse_settings(conf)
MainParseSettings ==
    /\ pc = "parsed_args"
    /\ Call
    /\ pc' = AfterParse(outcome')
    /\ UNCHANGED <<raw, rescore>>

\* rescore = MS2ReScore(parse_cli_args=False, configuration=conf, set_logger=True)
Construct ==
    /\ pc = "parsed"
    /\ rescore' = [constructed |-> TRUE, configuration |-> outcome.value, ran |-> FALSE]
    /\ pc' = "constructed"
    /\ UNCHANGED <<config, raw, arg, outcome, calls>>

\* rescore.run()
Run ==
    /\ pc = "constructed"
    /\ rescore' = [rescore EXCEPT !.ran = TRUE]
    /\ pc' = "done"
    /\ UNCHANGED <<config, raw, arg, outcome, calls>>

Next == ParseArguments \/ MainParseSettings \/ Construct \/ Run

Spec == Init /\ [][Next]_vars

\* a caller that holds a mapping: the form's, or one that lacks relocated
\* keys or holds other values than text
InitCaller ==
    /\ pc = "caller"
    /\ \/ IsFormValue(config)
       \/ \E mm \in OddValues, fm \in OddValues, lit \in OddLiterals :
            \E missing \in SUBSET RelocatedKeys :
                config = Without(Namespace(mm, fm, lit, "HCD2021", "infer"), missing)
    /\ raw = config
    /\ arg = <<>>
    /\ outcome = NoOutcome
    /\ calls = 0
    /\ rescore = NotConstructed

\* the caller hands its mapping to parse_settings, again and again
CallParseSettings ==
    /\ pc = "caller"
    /\ calls < MaxCalls
    /\ Call
    /\ UNCHANGED <<pc, raw, rescore>>

NextCaller == CallParseSettings

SpecCaller == InitCaller /\ [][NextCaller]_vars

----------------------------------------------------------------------------
(* What the claims speak of, stated on the text itself *)

FieldSet == {MaxQuantFields[i] : i \in DOMAIN MaxQuantFields}

\* the newline-separated lines of a text
NewlinesOf(t) == {i \in DOMAIN t : t[i] = "\n"}
LineCount(t) == Cardinality(NewlinesOf(t)) + 1
LineBoundary(t, n) ==
    IF n = 0 THEN 0
    ELSE IF n = LineCount(t) THEN Len(t) + 1
    ELSE CHOOSE i \in NewlinesOf(t) : Cardinality({j \in NewlinesOf(t) : j < i}) = n - 1
LinesOf(t) ==
    [n \in 1..LineCount(t) |-> SubSeq(t, LineBoundary(t, n - 1) + 1, LineBoundary(t, n) - 1)]

\* a line of exactly two space-separated tokens holds exactly one space
SpacesOf(line) == {i \in DOMAIN line : line[i] = " "}
TwoTokens(line) == Cardinality(SpacesOf(line)) = 1
FirstSpace(line) == CHOOSE i \in SpacesOf(line) : \A j \in SpacesOf(line) : i <= j
LabelOf(line) == SubSeq(line, 1, FirstSpace(line) - 1)
NameOf(line) == SubSeq(line, FirstSpace(line) + 1, Len(line))

IsText(v) == v.kind = "str"
EmptyText(v) == IsText(v) /\ v.atom = <<>>
WellFormedText(v) ==
    IsText(v) /\ v.atom # <<>> /\ \A n \in 1..LineCount(v.atom) : TwoTokens(LinesOf(v.atom)[n])
MalformedText(v) ==
    IsText(v) /\ v.atom # <<>> /\ \E n \in 1..LineCount(v.atom) : ~TwoTokens(LinesOf(v.atom)[n])

\* one entry per line, label -> full name, the last line of a label kept
LastLineWith(ls, l) ==
    CHOOSE n \in DOMAIN ls :
        LabelOf(ls[n]) = l /\ \A m \in DOMAIN ls : LabelOf(ls[m]) = l => m <= n
MappingOfLines(t) ==
    LET ls == LinesOf(t)
    IN  [l \in {LabelOf(ls[n]) : n \in DOMAIN ls} |-> NameOf(ls[LastLineWith(ls, l)])]

\* the form fields an error message points at
NamedFields(exc) ==
    IF exc = MaxQuantError THEN FieldSet
    ELSE IF exc = Ms2pipError THEN {"ms2pip_modifications"}
    ELSE {}

Returned == calls > 0 /\ outcome.status = "returned"
Raised == calls > 0 /\ outcome.status = "raised"
ConfigurationError(exc) == exc.type = "MS2RescoreGUIError"

\* the last call was handed a mapping with the two MaxQuant fields in it
BothFieldsGiven == calls > 0 /\ FieldSet \subseteq DOMAIN arg

\* the last call was handed all five relocated keys, with a literal "[]"
\* and, apart from field f, MaxQuant fields that are empty or well formed
RestIsFine(f) ==
    /\ calls > 0
    /\ RelocatedKeys \subseteq DOMAIN arg
    /\ \A g \in FieldSet \ {f} : EmptyText(arg[g]) \/ WellFormedText(arg[g])
    /\ arg["ms2pip_modifications"] = PyStr(<<"[", "]">>)

----------------------------------------------------------------------------
(* C1: a MaxQuant field whose text is non-empty and whose every line is    *)
(* exactly two space-separated tokens never makes parse_settings fail,     *)
(* parse_settings returns when the rest of the mapping is fine, and what   *)
(* it returns holds for the field one entry per line, label -> full name,  *)
(* the last line of a repeated label being the one kept.                   *)
C1_WellFormedTextParsed ==
    \A f \in FieldSet :
        (calls > 0 /\ f \in DOMAIN arg /\ WellFormedText(arg[f])) =>
            /\ RestIsFine(f) => Returned
            /\ outcome.exc = MaxQuantError =>
                    \E g \in FieldSet \ {f} :
                        g \in DOMAIN arg /\ ~WellFormedText(arg[g]) /\ ~EmptyText(arg[g])
            /\ Returned =>
                    outcome.value.maxquant_to_rescore[f] = MappingOfLines(arg[f].atom)

\* a returned call on a well-formed text two lines of which share a label
C1_Witness ==
    /\ Returned
    /\ \E f \in FieldSet :
        /\ WellFormedText(arg[f])
        /\ \E m, n \in 1..LineCount(arg[f].atom) :
            /\ m < n
            /\ LabelOf(LinesOf(arg[f].atom)[m]) = LabelOf(LinesOf(arg[f].atom)[n])
            /\ NameOf(LinesOf(arg[f].atom)[m]) # NameOf(LinesOf(arg[f].atom)[n])

----------------------------------------------------------------------------
----------------------------------------------------------------------------
(* C8: an empty MaxQuant field never makes parse_settings fail, and what   *)
(* parse_settings returns holds the empty mapping for it.                  *)
C8_EmptyTextIsEmptyMapping ==
    \A f \in FieldSet :
        (calls > 0 /\ f \in DOMAIN arg /\ EmptyText(arg[f])) =>
            /\ RestIsFine(f) => Returned
            /\ outcome.exc = MaxQuantError =>
                    \E g \in FieldSet \ {f} : g \in DOMAIN arg /\ ~EmptyText(arg[g])
            /\ Returned => DOMAIN outcome.value.maxquant_to_rescore[f] = {}

\* a returned call with an empty field
C8_Witness ==
    /\ Returned
    /\ \E f \in FieldSet : EmptyText(arg[f])

----------------------------------------------------------------------------
(* C9 as stated: a line is split on its first space only, the label being  *)
(* the text before it and the full name all the text after it: a field     *)
(* whose every line holds a space is parsed, each line giving its label    *)
(* an entry.                                                               *)
C9_SplitOnFirstSpaceOnly ==
    \A f \in FieldSet :
        (/\ RestIsFine(f)
         /\ IsText(arg[f]) /\ arg[f].atom # <<>>
         /\ \A n \in 1..LineCount(arg[f].atom) : SpacesOf(LinesOf(arg[f].atom)[n]) # {}) =>
            /\ Returned
            /\ \A n \in 1..LineCount(arg[f].atom) :
                    LabelOf(LinesOf(arg[f].atom)[n]) \in DOMAIN outcome.value.maxquant_to_rescore[f]

(* C9 as amended: a line is split on every space, and gives a pair only    *)
(* when it holds exactly one: the label is the text before the space and   *)
(* the full name the text after it.  A line with further spaces is         *)
(* rejected with the configuration error.                                  *)
C9_SplitOnEverySpace ==
    \A f \in FieldSet :
        /\ (Returned /\ IsText(arg[f]) /\ arg[f].atom # <<>>) =>
                \A n \in 1..LineCount(arg[f].atom) :
                    LET line == LinesOf(arg[f].atom)[n]
                        d == outcome.value.maxquant_to_rescore[f]
                    IN  /\ Cardinality(SpacesOf(line)) = 1
                        /\ LabelOf(line) \in DOMAIN d
                        /\ \E m \in n..LineCount(arg[f].atom) :
                                /\ LabelOf(LinesOf(arg[f].atom)[m]) = LabelOf(line)
                                /\ d[LabelOf(line)] = NameOf(LinesOf(arg[f].atom)[m])
        /\ (/\ BothFieldsGiven
            /\ IsText(arg[f])
            /\ \E n \in 1..LineCount(arg[f].atom) :
                    Cardinality(SpacesOf(LinesOf(arg[f].atom)[n])) > 1) =>
                Raised /\ outcome.exc = MaxQuantError

\* a call on a field with a line of three tokens, the rest being fine
C9_Witness ==
    /\ Raised
    /\ \E f \in FieldSet :
        /\ RestIsFine(f)
        /\ IsText(arg[f])
        /\ \E n \in 1..LineCount(arg[f].atom) :
            LET line == LinesOf(arg[f].atom)[n]
            IN  /\ Cardinality(SpacesOf(line)) = 2
                /\ line[1] # " " /\ line[Len(line)] # " "

----------------------------------------------------------------------------
\* exception types of the parsing primitives
LowLevelTypes == {"SyntaxError", "ValueError", "TypeError", "AttributeError"}

\* brackets that do not pair up: every '[' with a ']', every '{' with a '}'
Count(t, c) == Cardinality({i \in DOMAIN t : t[i] = c})
Unbalanced(t) == Count(t, "[") # Count(t, "]") \/ Count(t, "{") # Count(t, "}")

\* the last call got as far as the MS2PIP modifications: the keys before
\* it are there and the MaxQuant fields are empty or well formed
ReachedMs2pipModifications ==
    /\ calls > 0
    /\ (RelocatedKeys \ {"ms2pip_modifications"}) \subseteq DOMAIN arg
    /\ \A g \in FieldSet : EmptyText(arg[g]) \/ WellFormedText(arg[g])

(* C3: an ms2pip_modifications text that is no valid literal makes         *)
(* parse_settings fail with the configuration error for the MS2PIP         *)
(* modifications field, and no exception of a parsing primitive ever       *)
(* leaves parse_settings.                                                  *)
C3_BadLiteralIsConfigurationError ==
    /\ calls > 0 => outcome.exc.type \notin LowLevelTypes
    /\ (/\ calls > 0
        /\ "ms2pip_modifications" \in DOMAIN arg
        /\ IsText(arg["ms2pip_modifications"])
        /\ \/ Unbalanced(arg["ms2pip_modifications"].atom)
           \/ ~literal_eval(arg["ms2pip_modifications"]).ok) =>
            /\ Raised
            /\ ReachedMs2pipModifications =>
                    /\ outcome.exc = Ms2pipError
                    /\ NamedFields(outcome.exc) = {"ms2pip_modifications"}

\* a call that got to a literal with unbalanced brackets
C3_Witness ==
    /\ Raised
    /\ ReachedMs2pipModifications
    /\ "ms2pip_modifications" \in DOMAIN arg
    /\ IsText(arg["ms2pip_modifications"])
    /\ Unbalanced(arg["ms2pip_modifications"].atom)
    /\ Len(arg["ms2pip_modifications"].atom) > 1

----------------------------------------------------------------------------
(* C4: what parse_settings returns has the three sections; general holds   *)
(* every key handed in other than the five relocated ones, with its value, *)
(* and none of the five; maxquant_to_rescore has the two MaxQuant fields;  *)
(* ms2pip has model, frag_error and modifications, the first two with the  *)
(* values handed in as ms2pip_model and ms2pip_frag_error.                 *)
C4_SectionsOfTheResult ==
    Returned =>
        /\ DOMAIN outcome.value = {"general", "maxquant_to_rescore", "ms2pip"}
        /\ DOMAIN outcome.value.general = DOMAIN arg \ RelocatedKeys
        /\ \A k \in DOMAIN arg \ RelocatedKeys : outcome.value.general[k] = arg[k]
        /\ DOMAIN outcome.value.maxquant_to_rescore = FieldSet
        /\ DOMAIN outcome.value.ms2pip = {"model", "frag_error", "modifications"}
        /\ outcome.value.ms2pip["model"] = arg["ms2pip_model"]
        /\ outcome.value.ms2pip["frag_error"] = arg["ms2pip_frag_error"]

\* a returned call on a mapping that held other keys than the five
C4_Witness ==
    /\ Returned
    /\ DOMAIN arg \ RelocatedKeys # {}
    /\ RelocatedKeys \subseteq DOMAIN arg

----------------------------------------------------------------------------
(* C5: parse_settings leaves the mapping it is handed as it was, whether   *)
(* it returns or fails, and parsing the mapping again gives the outcome of *)
(* the first time.                                                         *)
C5_ArgumentLeftAlone ==
    calls > 0 =>
        /\ config = raw
        /\ parse_settings(config) = outcome

----------------------------------------------------------------------------
(* C6 as stated: whatever mapping it is handed, parse_settings returns or  *)
(* fails with the configuration error, never with another exception.       *)
C6_ReturnsOrConfigurationError ==
    calls = 1 => outcome.status = "returned" \/ ConfigurationError(outcome.exc)

\* the keys popped outside a try
KeysPoppedBare == {"modification_mapping", "fixed_modifications", "ms2pip_model", "ms2pip_frag_error"}

(* C6 as amended: handed a mapping that holds modification_mapping,        *)
(* fixed_modifications, ms2pip_model and ms2pip_frag_error, whatever their *)
(* values and with or without ms2pip_modifications, parse_settings returns *)
(* or fails with the configuration error; handed a mapping that lacks one  *)
(* of the four, it fails with KeyError unless a MaxQuant field before the  *)
(* missing key fails first.                                                *)
C6_ReturnsOrConfigurationErrorGivenKeys ==
    calls > 0 =>
        /\ outcome.status \in {"returned", "raised"}
        /\ KeysPoppedBare \subseteq DOMAIN arg =>
                outcome.status = "returned" \/ ConfigurationError(outcome.exc)
        /\ ~(KeysPoppedBare \subseteq DOMAIN arg) =>
                /\ Raised
                /\ outcome.exc.type = "KeyError" \/ outcome.exc = MaxQuantError
                /\ outcome.exc.type = "KeyError" => outcome.exc.msg \in KeysPoppedBare \ DOMAIN arg

\* the four keys are there, a MaxQuant field holds a number
C6_Witness ==
    /\ Raised
    /\ KeysPoppedBare \subseteq DOMAIN arg
    /\ "ms2pip_modifications" \notin DOMAIN arg
    /\ \E f \in FieldSet : arg[f].kind = "int"
    /\ ConfigurationError(outcome.exc)

----------------------------------------------------------------------------
\* a sequence of mapping records
SequenceOfRecords(v) ==
    /\ v.kind \in {"list", "tuple"}
    /\ \A i \in DOMAIN v.items : v.items[i].kind = "dict"

(* C7: what parse_settings returns holds a sequence of mapping records as  *)
(* ms2pip.modifications; a literal of another shape is rejected.           *)
C7_ModificationsAreRecords ==
    Returned => SequenceOfRecords(outcome.value.ms2pip["modifications"])

----------------------------------------------------------------------------
\* a ParsedConfiguration with all its sections and keys
Complete(v) ==
    /\ DOMAIN v.maxquant_to_rescore = FieldSet
    /\ DOMAIN v.ms2pip = {"model", "frag_error", "modifications"}
    /\ DOMAIN v.general \cap RelocatedKeys = {}

(* C10: main constructs the rescoring entry point only from what           *)
(* parse_settings returned, a complete configuration, and runs it only     *)
(* once constructed; when parse_settings fails nothing is constructed or   *)
(* run.                                                                    *)
C10_ConstructAndRunAfterParse ==
    /\ rescore.constructed =>
            /\ Returned
            /\ rescore.configuration = outcome.value
            /\ Complete(rescore.configuration)
    /\ rescore.ran => rescore.constructed
    /\ pc \in {"constructed", "done"} => rescore.constructed
    /\ Raised => ~rescore.constructed /\ ~rescore.ran /\ pc = "raised"
    /\ pc = "raised" => Raised

\* main has run the entry point
C10_Witness ==
    /\ pc = "done"
    /\ rescore.ran
    /\ Returned

====
